---- MODULE Spec2Model ----
(***************************************************************************)
(* Model of the essay-correction service (src/services/essay.service.js    *)
(* and the routes of src/routes/essay.routes.js): the store of Essay and   *)
(* Correction rows, submitEssay with the grader's raw response, and the    *)
(* read operations getEssayHistory, getEssayById, getEssayAnalytics and    *)
(* getUserAchievements.                                                    *)
(*                                                                         *)
(* Text is a sequence of tokens: "fence" is a markdown fence, "json" the   *)
(* language tag, "nl" a line break, "ws" a blank, "prose" free text, and a *)
(* token of JsonLiterals one JSON literal, whose decoded value JsonValue   *)
(* gives.  Error messages are sequences of phrases, so that the routes'    *)
(* message.includes(...) tests are computed on the message itself.         *)
(*                                                                         *)
(* res holds the last operation with its inputs and its result; inflight   *)
(* holds the calls of submitEssay that run concurrently, each with its     *)
(* position and its local variables (empty where calls run one at a time). *)
(***************************************************************************)
EXTENDS Integers, Sequences, FiniteSets, TLC

VARIABLES essays, corrections, boot, res, inflight

vars == <<essays, corrections, boot, res, inflight>>

\* ------------------------------------------------------------------ bounds
\* rows (Essay and Correction) written on top of the store found at start
MaxWrites == 3
\* graded essays of user "u1" already in the store when it starts seeded
SeedSize == 4
\* essays of a store the read operations are applied to
MaxSlots == 2
\* tokens of a text parseJsonSafely is applied to
MaxLen == 3

\* ------------------------------------------------------- JavaScript values
CompKeys == {"c1", "c2", "c3", "c4", "c5"}

Undefined == [t |-> "undefined", n |-> 0, s |-> <<>>]
Null == [t |-> "null", n |-> 0, s |-> <<>>]
Num(n) == [t |-> "number", n |-> n, s |-> <<>>]
Str(s) == [t |-> "string", n |-> 0, s |-> s]

\* !v for a scalar
Falsy(v) ==
    \/ v.t \in {"undefined", "null"}
    \/ v.t = "number" /\ v.n = 0
    \/ v.t = "string" /\ v.s = <<>>

\* v == null (loose): null or undefined
Nullish(v) == v.t \in {"undefined", "null"}

\* A decoded JSON value.  total and notas are meaningful for kind "object":
\* total is the member 'total' (Undefined when absent), hasComp says whether
\* the member 'competencias' is present, and notas maps each competency key
\* present in it to its 'nota'.
JsonNull == [kind |-> "null", num |-> 0, total |-> Undefined, hasComp |-> FALSE, notas |-> <<>>]
JsonNumber(n) == [kind |-> "number", num |-> n, total |-> Undefined, hasComp |-> FALSE, notas |-> <<>>]
JsonArray == [kind |-> "array", num |-> 0, total |-> Undefined, hasComp |-> FALSE, notas |-> <<>>]
JsonObject(total, hasComp, notas) ==
    [kind |-> "object", num |-> 0, total |-> total, hasComp |-> hasComp, notas |-> notas]

Notas(a, b, c, d, e) == [k \in CompKeys |->
    CASE k = "c1" -> a [] k = "c2" -> b [] k = "c3" -> c [] k = "c4" -> d [] OTHER -> e]

\* ------------------------------------------------ the grader's JSON bodies
JsonLiterals == {"J600", "J960", "J200", "J840", "Jodd", "JnoComp",
                 "JnoTotal", "Jnum", "Jnull", "Jarr"}

JsonValue(lit) ==
    CASE lit = "J600" -> JsonObject(Num(600), TRUE, Notas(120, 120, 120, 120, 120))
      [] lit = "J960" -> JsonObject(Num(960), TRUE, Notas(200, 200, 200, 200, 160))
      [] lit = "J200" -> JsonObject(Num(200), TRUE, Notas(0, 0, 0, 0, 200))
      [] lit = "J840" -> JsonObject(Num(840), TRUE, Notas(40, 40, 40, 40, 40))
      [] lit = "Jodd" -> JsonObject(Num(50), TRUE,
                            [k \in CompKeys \ {"c3"} |-> IF k = "c1" THEN 50 ELSE 0])
      [] lit = "JnoComp" -> JsonObject(Num(500), FALSE, <<>>)
      [] lit = "JnoTotal" -> JsonObject(Undefined, TRUE, Notas(200, 200, 200, 200, 200))
      [] lit = "Jnum" -> JsonNumber(7)
      [] lit = "Jnull" -> JsonNull
      [] OTHER -> JsonArray

\* ------------------------------------------------------------------- text
Blank == {"ws", "nl"}

RECURSIVE TrimStart(_)
TrimStart(s) ==
    IF s # <<>> /\ Head(s) \in Blank THEN TrimStart(Tail(s)) ELSE s

RECURSIVE TrimEnd(_)
TrimEnd(s) ==
    IF s # <<>> /\ s[Len(s)] \in Blank THEN TrimEnd(SubSeq(s, 1, Len(s) - 1)) ELSE s

\* String.prototype.trim
Trim(s) == TrimEnd(TrimStart(s))

\* JSON.parse: blanks around the value are skipped; anything but exactly one
\* JSON literal is a SyntaxError.
JSONparse(s) ==
    LET body == Trim(s)
    IN  IF Len(body) = 1 /\ body[1] \in JsonLiterals
        THEN [threw |-> FALSE, value |-> JsonValue(body[1])]
        ELSE [threw |-> TRUE, value |-> JsonNull]

\* message.includes(phrase), at the granularity of phrases
Includes(msg, phrase) == \E i \in 1..Len(msg) : msg[i] = phrase

\* --------------------------------------------------------- error messages
MsgRequired == <<"O texto e o tema da redacao sao obrigatorios.">>
MsgBlocked == <<"Falha na correcao:", "A API bloqueou o conteudo.",
                "Por favor, revise o texto da sua redacao.">>
MsgNoText == <<"O modelo Gemini nao retornou o texto de correcao.",
               "Verifique o log do servidor para mais detalhes.">>
MsgInvalid == <<"O modelo retornou uma correcao invalida ou incompleta.",
                "Detalhes no log do servidor.">>
MsgApiFail == <<"Falha na API de Correcao.",
                "Por favor, verifique a chave de API e a conexao de rede.">>
MsgNotFound == <<"Redacao nao encontrada", "ou acesso negado.">>
MsgGetFailed == <<"Nao foi possivel buscar a redacao.">>
NoMsg == <<>>

\* errors raised by the grading client: the SDK's own, and a network failure
UpstreamSdkError == <<"[", "GoogleGenerativeAI Error", "]:", "upstream detail">>
UpstreamFetchError == <<"fetch failed", "upstream detail">>

\* error raised by the storage client when a query fails
PrismaError == <<"PrismaClientKnownRequestError", "storage detail">>

\* ---------------------------------------------- parseJsonSafely(data)
\* data is what the caller holds: nothing, a string, or a decoded JSON value
\* (the Json column 'notes' comes back from the store already decoded).
DataString(s) == [t |-> "string", s |-> s, v |-> JsonNull]
DataJson(v) == [t |-> "json", s |-> <<>>, v |-> v]

\* cleanedString.startsWith(fence + 'json')
StartsWithJsonFence(s) == Len(s) >= 2 /\ s[1] = "fence" /\ s[2] = "json"

\* cleanedString.endsWith(fence)
EndsWithFence(s) == s # <<>> /\ s[Len(s)] = "fence"

\* the try block of parseJsonSafely on a string: the string is trimmed,
\* stripped of its fence and decoded; threw when JSON.parse throws
TryParse(s) ==
    LET c0 == Trim(s)
        c1 == IF StartsWithJsonFence(c0) THEN SubSeq(c0, 3, Len(c0)) ELSE c0
        c2 == IF EndsWithFence(c1) THEN SubSeq(c1, 1, Len(c1) - 1) ELSE c1
    IN  JSONparse(Trim(c2))

\* variant of CatchParse: the error is thrown again
CatchParse_Rethrow(p) == p

\* catch (e) { console.error(...); return null; }
CatchParse(p) == IF p.threw THEN [threw |-> FALSE, value |-> JsonNull] ELSE p

\* one call of parseJsonSafely: the value it returns, or threw when an error
\* leaves it.  null for nothing, a decoded object as it is, a string through
\* the try block, null for the rest
parseJsonSafelyCall(data) ==
    IF data.t = "json"
    THEN [threw |-> FALSE,
          value |-> IF data.v.kind = "object" THEN data.v ELSE JsonNull]
    ELSE IF data.s = <<>> THEN [threw |-> FALSE, value |-> JsonNull]
    ELSE CatchParse(TryParse(data.s))

\* the value parseJsonSafely returns
parseJsonSafely(data) == parseJsonSafelyCall(data).value

\* !value for a decoded JSON value
FalsyJson(v) == v.kind = "null" \/ (v.kind = "number" /\ v.num = 0)

\* value?.total / value.total
TotalOf(v) == IF v.kind = "object" THEN v.total ELSE Undefined

\* value?.competencias?.[k]?.nota
NotaOf(v, k) ==
    IF v.kind = "object" /\ v.hasComp /\ k \in DOMAIN v.notas
    THEN Num(v.notas[k]) ELSE Undefined

\* ------------------------------------------- the grading call's outcomes
\* threw: generateContent rejected with error err.  Otherwise the response
\* carries candidates[0].content.parts[0].text (candText), the plain member
\* text, and promptFeedback.blockReason (blocked).
Threw(err) == [threw |-> TRUE, err |-> err, candText |-> <<>>, text |-> <<>>, blocked |-> FALSE]
Answer(candText, text, blocked) ==
    [threw |-> FALSE, err |-> NoMsg, candText |-> candText, text |-> text, blocked |-> blocked]

Fenced(lit) == <<"fence", "json", "nl", lit, "nl", "fence">>
BareFenced(lit) == <<"fence", "nl", lit, "nl", "fence">>

NoCall == Answer(<<>>, <<>>, FALSE)

GraderOutcomes == {
    Answer(Fenced("J960"), <<>>, FALSE),
    Answer(<<"J200", "nl">>, <<>>, FALSE),
    Answer(<<>>, Fenced("J840"), FALSE),
    Answer(<<"ws", "Jodd">>, <<>>, FALSE),
    Answer(<<"JnoTotal">>, <<>>, FALSE),
    Answer(<<"Jnum">>, <<>>, FALSE),
    Answer(<<"Jarr">>, <<>>, FALSE),
    Answer(<<"prose">>, <<>>, FALSE),
    Answer(BareFenced("J960"), <<>>, FALSE),
    Answer(<<>>, <<>>, FALSE),
    Answer(<<>>, <<>>, TRUE),
    Answer(<<"prose">>, <<>>, TRUE),
    Threw(UpstreamSdkError),
    Threw(UpstreamFetchError) }

\* extractRawTextFromResponse: the first non-empty text found, else null
extractRawTextFromResponse(response) ==
    IF response.candText # <<>> THEN [found |-> TRUE, text |-> response.candText]
    ELSE IF response.text # <<>> THEN [found |-> TRUE, text |-> response.text]
    ELSE [found |-> FALSE, text |-> <<>>]

\* ------------------------------------------------------------ the store
\* Essay rows and Correction rows, each in order of insertion.
Users == {"u1", "u2"}

EmptyStore == [essays |-> <<>>, corrections |-> <<>>]

\* @default(now()): every row is stamped later than all rows before it
Now(st) == Len(st.essays) + Len(st.corrections) + 1

Min(S) == CHOOSE x \in S : \A y \in S : x <= y

\* the rows of a sequence in descending order of createdAt
RECURSIVE OrderByCreatedDesc(_)
OrderByCreatedDesc(rows) ==
    IF rows = <<>> THEN <<>>
    ELSE LET i == CHOOSE i \in 1..Len(rows) :
                     \A j \in 1..Len(rows) : rows[j].createdAt <= rows[i].createdAt
             rest == SubSeq(rows, 1, i - 1) \o SubSeq(rows, i + 1, Len(rows))
         IN  <<rows[i]>> \o OrderByCreatedDesc(rest)

\* Array.prototype.reverse
Reverse(q) == [i \in 1..Len(q) |-> q[Len(q) + 1 - i]]

\* Array.prototype.slice(0, n), and Prisma's take: n
Take(rows, n) == SubSeq(rows, 1, IF Len(rows) < n THEN Len(rows) ELSE n)

\* variant of CorrectionsOf: the include has no filter on the essay
CorrectionsOf_AnyEssay(st, essayId) == OrderByCreatedDesc(st.corrections)

\* include: { corrections: { orderBy: { createdAt: 'desc' } } }
CorrectionsOf(st, essayId) ==
    OrderByCreatedDesc(SelectSeq(st.corrections, LAMBDA c : c.essayId = essayId))

\* variant of LatestCorrections: the oldest correction is taken
LatestCorrections_Oldest(st, essayId) == Take(Reverse(CorrectionsOf(st, essayId)), 1)

\* include: { corrections: { orderBy: { createdAt: 'desc' }, take: 1 } }
LatestCorrections(st, essayId) == Take(CorrectionsOf(st, essayId), 1)

\* variant of EssaysOfUser: the query has no filter on the owner
EssaysOfUser_AllUsers(st, userId) == st.essays

\* prisma.essay.findMany({ where: { userId } })
EssaysOfUser(st, userId) == SelectSeq(st.essays, LAMBDA e : e.userId = userId)

\* variant of FindFirstEssay: no row is ever found
FindFirstEssay_None(st, userId, topic, text) == 0

\* prisma.essay.findFirst({ where: { userId, topic, text } }): 0 when absent
FindFirstEssay(st, userId, topic, text) ==
    LET m == {i \in 1..Len(st.essays) :
                 /\ st.essays[i].userId = userId
                 /\ st.essays[i].topic = topic
                 /\ st.essays[i].text = text}
    IN  IF m = {} THEN 0 ELSE st.essays[Min(m)].id

\* --------------------------------------------------------- submitEssay
\* the catch block of submitEssay: an SDK error is replaced, others rethrown
CatchSubmit(err) ==
    IF Includes(err, "GoogleGenerativeAI Error") THEN MsgApiFail ELSE err

\* variant of SubmitFailed: the grading call is made once more before the
\* call gives up
SubmitFailed_Retried(st, err, calls) ==
    [ok |-> FALSE, error |-> err, calls |-> calls + calls, createdEssay |-> FALSE,
     essayId |-> 0, correctionId |-> 0, total |-> Undefined, st |-> st]

SubmitFailed(st, err, calls) ==
    [ok |-> FALSE, error |-> err, calls |-> calls, createdEssay |-> FALSE,
     essayId |-> 0, correctionId |-> 0, total |-> Undefined, st |-> st]

\* what is written to the column 'total' of the new Correction
StoredTotal(parsed) == parsed.total

\* variant of AcceptsParsed: the decoded response is not checked
AcceptsParsed_Unchecked(parsed) == TRUE

\* the test that lets a decoded response through to persistence
AcceptsParsed(parsed) ==
    ~(FalsyJson(parsed) \/ TotalOf(parsed).t = "undefined" \/ TotalOf(parsed).t = "null")

\* variant of InputRejected: only the text is checked
InputRejected_TextOnly(essayData) == Falsy(essayData.essayText)

\* if (!essayText || !essayTopic) throw
InputRejected(essayData) == Falsy(essayData.essayText) \/ Falsy(essayData.essayTopic)

\* the row prisma.essay.create adds
NewEssay(st, userId, essayData) ==
    [id |-> Len(st.essays) + 1, userId |-> userId,
     topic |-> essayData.essayTopic.s, text |-> essayData.essayText.s,
     createdAt |-> Now(st)]

\* the row prisma.correction.create adds
NewCorrection(st, essayId, parsedCorrection) ==
    [id |-> Len(st.corrections) + 1, essayId |-> essayId,
     total |-> StoredTotal(parsedCorrection), notes |-> parsedCorrection,
     createdAt |-> Now(st)]

\* variant of AddCorrection: an essay that has corrections gets them
\* overwritten with the new grade instead of a new row
AddCorrection_Overwrites(st, row) ==
    IF \E j \in 1..Len(st.corrections) : st.corrections[j].essayId = row.essayId
    THEN [st EXCEPT !.corrections =
             [j \in 1..Len(@) |->
                 IF @[j].essayId = row.essayId
                 THEN [@[j] EXCEPT !.total = row.total, !.notes = row.notes]
                 ELSE @[j]]]
    ELSE [st EXCEPT !.corrections = Append(@, row)]

\* the store after prisma.correction.create
AddCorrection(st, row) == [st EXCEPT !.corrections = Append(@, row)]

\* how the storage client behaves during one call: every query succeeds, or
\* the named query rejects
DbOutcomes == {"ok", "findFirst fails", "correction.create fails"}

\* submitEssay(userId, essayData) when the grading call, if made, ends as
\* gemini and the storage client behaves as db
submitEssay(st, userId, essayData, gemini, db) ==
    LET essayText == essayData.essayText
        essayTopic == essayData.essayTopic
    IN
    IF InputRejected(essayData) THEN SubmitFailed(st, MsgRequired, 0)
    ELSE IF gemini.threw THEN SubmitFailed(st, CatchSubmit(gemini.err), 1)
    ELSE
    LET rawJsonCorrection == extractRawTextFromResponse(gemini) IN
    IF ~rawJsonCorrection.found
    THEN IF gemini.blocked
         THEN SubmitFailed(st, CatchSubmit(MsgBlocked), 1)
         ELSE SubmitFailed(st, CatchSubmit(MsgNoText), 1)
    ELSE
    LET parsedCorrection == parseJsonSafely(DataString(rawJsonCorrection.text)) IN
    IF ~AcceptsParsed(parsedCorrection)
    THEN SubmitFailed(st, CatchSubmit(MsgInvalid), 1)
    ELSE IF db = "findFirst fails" THEN SubmitFailed(st, CatchSubmit(PrismaError), 1)
    ELSE
    LET found == FindFirstEssay(st, userId, essayTopic.s, essayText.s)
        newEssay == NewEssay(st, userId, essayData)
        st1 == IF found = 0
               THEN [st EXCEPT !.essays = Append(@, newEssay)]
               ELSE st
        essayId == IF found = 0 THEN newEssay.id ELSE found
        correctionRecord == NewCorrection(st1, essayId, parsedCorrection)
        st2 == AddCorrection(st1, correctionRecord)
    IN  IF db = "correction.create fails"
        THEN [SubmitFailed(st1, CatchSubmit(PrismaError), 1) EXCEPT
                 !.createdEssay = (found = 0), !.essayId = essayId]
        ELSE [ok |-> TRUE, error |-> NoMsg, calls |-> 1, createdEssay |-> (found = 0),
              essayId |-> essayId, correctionId |-> correctionRecord.id,
              total |-> correctionRecord.total, st |-> st2]

\* whether a call reaches the storage client
ReachesStorage(essayData, gemini) ==
    /\ ~InputRejected(essayData)
    /\ ~gemini.threw
    /\ extractRawTextFromResponse(gemini).found
    /\ AcceptsParsed(parseJsonSafely(DataString(extractRawTextFromResponse(gemini).text)))

\* router.post("/"): the status and the message sent to the client for a
\* result r of submitEssay; a failure is answered with the error's own message
RoutePostEssay(r) ==
    IF r.ok THEN [status |-> 200, message |-> NoMsg]
    ELSE IF Includes(r.error, "esta faltando na submissao")
         THEN [status |-> 400, message |-> r.error]
         ELSE [status |-> 500, message |-> r.error]

\* ------------------------------------------------------- getEssayHistory
\* The user's essays, newest first, each with its latest correction (notes
\* decoded); essays without a correction are dropped.
getEssayHistory(st, userId) ==
    LET history == OrderByCreatedDesc(EssaysOfUser(st, userId))
        withCorr == SelectSeq(history, LAMBDA e : Len(LatestCorrections(st, e.id)) > 0)
    IN  [i \in 1..Len(withCorr) |->
            LET essay == withCorr[i]
                latestCorrection == LatestCorrections(st, essay.id)[1]
            IN  [id |-> essay.id, userId |-> essay.userId, topic |-> essay.topic,
                 text |-> essay.text, createdAt |-> essay.createdAt,
                 correction |-> [latestCorrection EXCEPT
                                    !.notes = parseJsonSafely(DataJson(@))]]]

\* ---------------------------------------------------------- getEssayById
NoEssay == [id |-> 0, userId |-> "", topic |-> <<>>, text |-> <<>>,
            createdAt |-> 0, corrections |-> <<>>]

\* a key as the where clause compares it: the caller may pass any value
\* for either field, and a value of one column equals none of the other
IdKey(v) == ToString(v)

\* variant of FindUniqueEssay: the owner is not part of the filter
FindUniqueEssay_AnyOwner(st, essayId, userId) ==
    LET m == {i \in 1..Len(st.essays) : st.essays[i].id = essayId}
    IN  IF m = {} THEN 0 ELSE Min(m)

\* prisma.essay.findUnique({ where: { id, userId } }): 0 when absent
FindUniqueEssay(st, essayId, userId) ==
    LET m == {i \in 1..Len(st.essays) :
                 /\ IdKey(st.essays[i].id) = IdKey(essayId)
                 /\ IdKey(st.essays[i].userId) = IdKey(userId)}
    IN  IF m = {} THEN 0 ELSE Min(m)

getEssayById(st, essayId, userId) ==
    LET i == FindUniqueEssay(st, essayId, userId) IN
    IF i = 0 THEN [ok |-> FALSE, error |-> MsgNotFound, essay |-> NoEssay]
    ELSE LET essay == st.essays[i]
             cs == CorrectionsOf(st, essay.id)
         IN  [ok |-> TRUE, error |-> NoMsg,
              essay |-> [id |-> essay.id, userId |-> essay.userId,
                         topic |-> essay.topic, text |-> essay.text,
                         createdAt |-> essay.createdAt,
                         corrections |-> [k \in 1..Len(cs) |->
                             [cs[k] EXCEPT !.notes = parseJsonSafely(DataJson(@))]]]]

\* router.get("/:essayId"): the status and body sent to the client
RouteGetEssay(st, essayId, userId) ==
    LET r == getEssayById(st, essayId, userId) IN
    IF r.ok THEN [status |-> 200, message |-> NoMsg, essay |-> r.essay]
    ELSE IF Includes(r.error, "Redacao nao encontrada")
         THEN [status |-> 404, message |-> MsgNotFound, essay |-> NoEssay]
         ELSE [status |-> 500, message |-> MsgGetFailed, essay |-> NoEssay]

\* --------------------------------------------------- the graded essays
\* essays.filter(e => e.corrections.length > 0), in the order of findMany
GradedEssays(st, userId) ==
    SelectSeq(EssaysOfUser(st, userId), LAMBDA e : Len(LatestCorrections(st, e.id)) > 0)

\* parseJsonSafely(e.corrections[0].notes)
LatestNotes(st, e) == parseJsonSafely(DataJson(LatestCorrections(st, e.id)[1].notes))

\* gradedEssays.map(e => notes?.total).filter(score => score != null)
EssayGrades(st, userId) ==
    LET g == GradedEssays(st, userId)
        totals == [i \in 1..Len(g) |-> TotalOf(LatestNotes(st, g[i]))]
    IN  SelectSeq(totals, LAMBDA score : ~Nullish(score))

\* variant of C5Scores: the nota of c4 is read
C5Scores_C4(st, userId) ==
    LET g == GradedEssays(st, userId)
        notas == [i \in 1..Len(g) |-> NotaOf(LatestNotes(st, g[i]), "c4")]
    IN  SelectSeq(notas, LAMBDA score : ~Nullish(score))

\* gradedEssays.map(e => notes?.competencias?.c5?.nota).filter(score => score != null)
C5Scores(st, userId) ==
    LET g == GradedEssays(st, userId)
        notas == [i \in 1..Len(g) |-> NotaOf(LatestNotes(st, g[i]), "c5")]
    IN  SelectSeq(notas, LAMBDA score : ~Nullish(score))

\* --------------------------------------------------- getUserAchievements
FirstEssayThreshold == 1
FiveEssaysThreshold == 5
RoadTo1000Threshold == 900
MasterC5Nota == 200

\* variant of BaseAchievements: the counts are compared with > instead of >=
BaseAchievements_Strict(essayGrades) ==
    << [id |-> "first_essay", unlocked |-> Len(essayGrades) > FirstEssayThreshold],
       [id |-> "five_essays", unlocked |-> Len(essayGrades) > FiveEssaysThreshold],
       [id |-> "road_to_1000",
        unlocked |-> \E i \in 1..Len(essayGrades) : essayGrades[i].n >= RoadTo1000Threshold] >>

\* the list as first built, before the competency-5 step
BaseAchievements(essayGrades) ==
    << [id |-> "first_essay", unlocked |-> Len(essayGrades) >= FirstEssayThreshold],
       [id |-> "five_essays", unlocked |-> Len(essayGrades) >= FiveEssaysThreshold],
       [id |-> "road_to_1000",
        unlocked |-> \E i \in 1..Len(essayGrades) : essayGrades[i].n >= RoadTo1000Threshold] >>

\* c5Scores.some(score => score === 200)
HasMasterC5(c5Scores) == \E i \in 1..Len(c5Scores) : c5Scores[i].n = MasterC5Nota

getUserAchievements(st, userId) ==
    LET achievements == BaseAchievements(EssayGrades(st, userId)) IN
    IF HasMasterC5(C5Scores(st, userId))
    THEN \* no entry 'master_c5' is in the list: the else branch pushes it
         Append(achievements, [id |-> "master_c5", unlocked |-> TRUE])
    ELSE achievements

\* ----------------------------------------------------- getEssayAnalytics
RECURSIVE SumN(_)
SumN(scores) == IF scores = <<>> THEN 0 ELSE Head(scores).n + SumN(Tail(scores))

\* Math.round(a / b) for a >= 0 and b > 0
RoundDiv(a, b) == (2 * a + b) \div (2 * b)

\* Math.max(...scores): -Infinity for an empty list
MaxOf(scores) ==
    IF scores = <<>> THEN [finite |-> FALSE, n |-> 0]
    ELSE [finite |-> TRUE,
          n |-> CHOOSE m \in {scores[i].n : i \in 1..Len(scores)} :
                    \A i \in 1..Len(scores) : scores[i].n <= m]

RecentCount == 5

getEssayAnalytics(st, userId) ==
    LET gradedEssays == GradedEssays(st, userId)
        essayGrades == EssayGrades(st, userId)
        totalEssays == Len(gradedEssays)
        notes == [i \in 1..Len(gradedEssays) |-> LatestNotes(st, gradedEssays[i])]
        competenceScores == SelectSeq(notes, LAMBDA v : v.kind = "object" /\ v.hasComp)
        keys == UNION {DOMAIN competenceScores[i].notas : i \in 1..Len(competenceScores)}
        sumScores == [k \in keys |->
            SumN([i \in 1..Len(competenceScores) |->
                    IF k \in DOMAIN competenceScores[i].notas
                    THEN Num(competenceScores[i].notas[k]) ELSE Num(0)])]
    IN  [totalEssays |-> totalEssays,
         averageGrade |-> IF totalEssays > 0
                          THEN RoundDiv(SumN(essayGrades), totalEssays) ELSE 0,
         highestGrade |-> IF totalEssays > 0 THEN MaxOf(essayGrades)
                          ELSE [finite |-> TRUE, n |-> 0],
         recentGrades |-> Reverse(Take(essayGrades, RecentCount)),
         competenceAverages |-> [k \in keys |->
                                    RoundDiv(sumScores[k], Len(competenceScores))]]

\* ------------------------------------------------------- the state machine
St == [essays |-> essays, corrections |-> corrections]

\* the store at start: empty, or holding SeedSize graded essays that earlier
\* runs of submitEssay wrote for user "u1"
SeedTopic(n) == <<"A">> \o [k \in 1..n |-> "i"]

RECURSIVE SeedStore(_)
SeedStore(n) ==
    IF n = 0 THEN EmptyStore
    ELSE submitEssay(SeedStore(n - 1), "u1",
                     [essayText |-> Str(<<"X">>), essayTopic |-> Str(SeedTopic(n))],
                     Answer(Fenced("J600"), <<>>, FALSE), "ok").st

BootSize == IF boot = "seeded" THEN SeedSize ELSE 0

Init ==
    /\ boot \in {"empty", "seeded"}
    /\ essays = SeedStore(BootSize).essays
    /\ corrections = SeedStore(BootSize).corrections
    /\ res = [op |-> "none"]
    /\ inflight = <<>>

TopicInputs == {Undefined, Str(<<>>), Str(<<"T">>)}
TextInputs == {Str(<<>>), Str(<<"X">>)}

\* the outcomes the grading call can have for a submission: it is not made
\* at all when the input is rejected
OutcomesFor(essayData) ==
    IF InputRejected(essayData) THEN {NoCall} ELSE GraderOutcomes

\* the storage behaviours that matter to a call: none when it ends before
\* its first query
DbOutcomesFor(essayData, g) ==
    IF ReachesStorage(essayData, g) THEN DbOutcomes ELSE {"ok"}

Rows(st) == Len(st.essays) + Len(st.corrections)

\* rows of the store at start: an Essay and a Correction for each seed
BootRows == BootSize + BootSize

\* POST /: one whole call of submitEssay
SubmitEssay ==
    \E userId \in Users, topic \in TopicInputs, text \in TextInputs :
        LET essayData == [essayText |-> text, essayTopic |-> topic] IN
        \E g \in OutcomesFor(essayData) :
            \E db \in DbOutcomesFor(essayData, g) :
                \E r \in {submitEssay(St, userId, essayData, g, db)} :
                    /\ Rows(r.st) - BootRows <= MaxWrites
                    /\ essays' = r.st.essays
                    /\ corrections' = r.st.corrections
                    /\ res' = [op |-> "submitEssay", userId |-> userId,
                               essayData |-> essayData, gemini |-> g, db |-> db,
                               ok |-> r.ok, error |-> r.error, calls |-> r.calls,
                               createdEssay |-> r.createdEssay, essayId |-> r.essayId,
                               correctionId |-> r.correctionId, total |-> r.total,
                               reply |-> RoutePostEssay(r),
                               correctionsBefore |-> Len(corrections),
                               essaysBefore |-> Len(essays)]
                    /\ UNCHANGED <<boot, inflight>>

\* GET /history
GetEssayHistory ==
    \E userId \in Users :
        /\ res' = [op |-> "getEssayHistory", userId |-> userId,
                   out |-> getEssayHistory(St, userId)]
        /\ UNCHANGED <<essays, corrections, boot, inflight>>

\* GET /:essayId, for an id in use or the next one, not yet in use
GetEssayById ==
    \E userId \in Users, essayId \in 1..(Len(essays) + 1) :
        /\ res' = [op |-> "getEssayById", userId |-> userId, essayId |-> essayId,
                   out |-> getEssayById(St, essayId, userId),
                   reply |-> RouteGetEssay(St, essayId, userId)]
        /\ UNCHANGED <<essays, corrections, boot, inflight>>

\* GET /analytics
GetEssayAnalytics ==
    \E userId \in Users :
        /\ res' = [op |-> "getEssayAnalytics", userId |-> userId,
                   out |-> getEssayAnalytics(St, userId)]
        /\ UNCHANGED <<essays, corrections, boot, inflight>>

\* GET /achievements
GetUserAchievements ==
    \E userId \in Users :
        /\ res' = [op |-> "getUserAchievements", userId |-> userId,
                   out |-> getUserAchievements(St, userId)]
        /\ UNCHANGED <<essays, corrections, boot, inflight>>

Next ==
    \/ SubmitEssay
    \/ GetEssayHistory
    \/ GetEssayById
    \/ GetEssayAnalytics
    \/ GetUserAchievements

Spec == Init /\ [][Next]_vars

TypeOK ==
    /\ boot \in {"empty", "seeded"}
    /\ \A i \in 1..Len(essays) : essays[i].id = i /\ essays[i].userId \in Users
    /\ \A i \in 1..Len(corrections) :
           corrections[i].id = i /\ corrections[i].essayId \in 1..Len(essays)

\* ------------------------------------------- the read operations on a store
\* The read operations are functions of the store alone.  StoreSpec applies
\* them to every store of at most MaxSlots essays, each with no correction or
\* with one, written by submitEssay or by correctEssay of the earlier
\* revision, whose rows stay in the database.

\* notes as correctEssay wrote them: the value of 'competencias' alone, an
\* object without the members 'total' and 'competencias'
LegacyNotes == JsonObject(Undefined, FALSE, <<>>)

\* the column 'total' as correctEssay wrote it
LegacyTotal == Num(600)

\* the notes a stored Correction holds
StoredNotes == {JsonValue("J600"), JsonValue("J960"), JsonValue("J200"), LegacyNotes}

\* an essay of the store: its owner and the notes of its corrections
Slots == [userId : Users, notes : {<<>>} \cup {<<n>> : n \in StoredNotes}]

RECURSIVE SlotSeqs(_)
SlotSeqs(n) ==
    IF n = 0 THEN {<<>>}
    ELSE SlotSeqs(n - 1) \cup {Append(q, s) : q \in SlotSeqs(n - 1), s \in Slots}

\* the store holding the essays of slots, in order of creation
RECURSIVE StoreOf(_)
StoreOf(slots) ==
    IF slots = <<>> THEN EmptyStore
    ELSE LET st == StoreOf(SubSeq(slots, 1, Len(slots) - 1))
             slot == slots[Len(slots)]
             essay == [id |-> Len(st.essays) + 1, userId |-> slot.userId,
                       topic |-> SeedTopic(Len(slots)), text |-> <<"X">>,
                       createdAt |-> Now(st)]
             st1 == [st EXCEPT !.essays = Append(@, essay)]
             cs == [k \in 1..Len(slot.notes) |->
                      [id |-> Len(st1.corrections) + k, essayId |-> essay.id,
                       total |-> IF slot.notes[k] = LegacyNotes THEN LegacyTotal
                                 ELSE StoredTotal(slot.notes[k]),
                       notes |-> slot.notes[k],
                       createdAt |-> Now(st1) + k - 1]]
         IN  [st1 EXCEPT !.corrections = @ \o cs]

StoreInit ==
    /\ boot = "store"
    /\ \E slots \in SlotSeqs(MaxSlots) :
           /\ essays = StoreOf(slots).essays
           /\ corrections = StoreOf(slots).corrections
    /\ res = [op |-> "none"]
    /\ inflight = <<>>

ReadNext ==
    \/ GetEssayHistory
    \/ GetEssayById
    \/ GetEssayAnalytics
    \/ GetUserAchievements

StoreSpec == StoreInit /\ [][ReadNext]_vars

\* ------------------------------------------------ parseJsonSafely alone
\* ParseSpec applies parseJsonSafely to every text of at most MaxLen tokens
\* and to the values that are no string, and to each text put in a fence.
TextTokens == {"fence", "json", "nl", "prose", "J600", "Jnum"}

RECURSIVE Texts(_)
Texts(n) ==
    IF n = 0 THEN {<<>>}
    ELSE Texts(n - 1) \cup {Append(q, c) : q \in Texts(n - 1), c \in TextTokens}

\* null or undefined, the numbers 0 and 7, an array, decoded objects
NonStrings == {JsonNull, JsonNumber(0), JsonNumber(7), JsonArray,
               JsonValue("J600"), LegacyNotes}

ParseInputs == {DataString(s) : s \in Texts(MaxLen)} \cup {DataJson(v) : v \in NonStrings}

\* a text in a markdown fence, with the language tag json or without
InFence(s, tagged) ==
    <<"fence">> \o (IF tagged THEN <<"json">> ELSE <<>>) \o <<"nl">> \o s \o <<"nl", "fence">>

ParseInit ==
    /\ boot = "parse"
    /\ essays = <<>>
    /\ corrections = <<>>
    /\ \E data \in ParseInputs : res = [op |-> "input", data |-> data]
    /\ inflight = <<>>

\* parseJsonSafely(data)
ParseJsonSafely ==
    /\ res.op = "input"
    /\ res' = [op |-> "parseJsonSafely", data |-> res.data,
               out |-> parseJsonSafelyCall(res.data)]
    /\ UNCHANGED <<essays, corrections, boot, inflight>>

\* parseJsonSafely(s) and parseJsonSafely(s in a fence) for a string s
ParseFenced ==
    /\ res.op = "input"
    /\ res.data.t = "string"
    /\ \E tagged \in BOOLEAN :
           res' = [op |-> "parseFenced", data |-> res.data, tagged |-> tagged,
                   plain |-> parseJsonSafelyCall(res.data),
                   out |-> parseJsonSafelyCall(DataString(InFence(res.data.s, tagged)))]
    /\ UNCHANGED <<essays, corrections, boot, inflight>>

ParseNext == ParseJsonSafely \/ ParseFenced

ParseSpec == ParseInit /\ [][ParseNext]_vars

\* ------------------------------------------ submitEssay, calls overlapping
\* RaceSpec runs two calls of submitEssay for the same topic and text at the
\* same time.  A call yields at each await (generateContent, findFirst,
\* essay.create, correction.create) and the storage client runs each query
\* as one step; pc names the await a call is at.
Calls == {1, 2}

RaceData == [essayText |-> Str(<<"X">>), essayTopic |-> Str(<<"T">>)]

RaceOutcomes == {
    Answer(Fenced("J960"), <<>>, FALSE),
    Answer(<<"J200", "nl">>, <<>>, FALSE),
    Answer(<<"prose">>, <<>>, FALSE) }

\* the store when the calls start: empty, or holding the essay already,
\* graded, for user "u1"
RaceStores ==
    {EmptyStore,
     submitEssay(EmptyStore, "u1", RaceData, Answer(Fenced("J600"), <<>>, FALSE), "ok").st}

\* whether the table Essay has a unique index on (userId, topic, text), on
\* which a second essay.create for the same key would be rejected: it has
\* none, a duplicate Essay being what a race may leave behind
EssayKeyUnique == FALSE

RaceInit ==
    /\ boot = "race"
    /\ \E st \in RaceStores :
           /\ essays = st.essays
           /\ corrections = st.corrections
           /\ res = [op |-> "race", essaysBefore |-> Len(st.essays),
                     correctionsBefore |-> Len(st.corrections)]
    /\ \E owner \in [Calls -> Users] :
           inflight = [c \in Calls |->
                          [pc |-> "generateContent", userId |-> owner[c],
                           essayData |-> RaceData, gemini |-> NoCall,
                           parsed |-> JsonNull, essayId |-> 0, correctionId |-> 0,
                           error |-> NoMsg]]

\* lines 144-188: the input is checked, the grading call returns, its text
\* is extracted, decoded and checked
RaceGraded ==
    \E c \in Calls, g \in RaceOutcomes :
        LET call == inflight[c] IN
        /\ call.pc = "generateContent"
        /\ inflight' = [inflight EXCEPT ![c] =
               IF ReachesStorage(call.essayData, g)
               THEN [call EXCEPT !.pc = "findFirst", !.gemini = g,
                        !.parsed = parseJsonSafely(
                                       DataString(extractRawTextFromResponse(g).text))]
               ELSE [call EXCEPT !.pc = "failed", !.gemini = g,
                        !.error = submitEssay(St, call.userId, call.essayData,
                                              g, "ok").error]]
        /\ UNCHANGED <<essays, corrections, boot, res>>

\* lines 191-200: prisma.essay.findFirst
RaceFindFirst ==
    \E c \in Calls :
        LET call == inflight[c]
            found == FindFirstEssay(St, call.userId, call.essayData.essayTopic.s,
                                    call.essayData.essayText.s)
        IN  /\ call.pc = "findFirst"
            /\ inflight' = [inflight EXCEPT ![c] =
                   [call EXCEPT !.essayId = found,
                                !.pc = IF found = 0 THEN "essay.create"
                                       ELSE "correction.create"]]
            /\ UNCHANGED <<essays, corrections, boot, res>>

\* lines 201-207: prisma.essay.create
RaceEssayCreate ==
    \E c \in Calls :
        LET call == inflight[c]
            taken == FindFirstEssay(St, call.userId, call.essayData.essayTopic.s,
                                    call.essayData.essayText.s) # 0
            essay == NewEssay(St, call.userId, call.essayData)
        IN  /\ call.pc = "essay.create"
            /\ IF EssayKeyUnique /\ taken
               THEN /\ inflight' = [inflight EXCEPT ![c] =
                           [call EXCEPT !.pc = "failed",
                                        !.error = CatchSubmit(PrismaError)]]
                    /\ UNCHANGED essays
               ELSE /\ essays' = Append(essays, essay)
                    /\ inflight' = [inflight EXCEPT ![c] =
                           [call EXCEPT !.essayId = essay.id,
                                        !.pc = "correction.create"]]
            /\ UNCHANGED <<corrections, boot, res>>

\* lines 211-217: prisma.correction.create
RaceCorrectionCreate ==
    \E c \in Calls :
        LET call == inflight[c]
            correctionRecord == NewCorrection(St, call.essayId, call.parsed)
        IN  /\ call.pc = "correction.create"
            /\ corrections' = AddCorrection(St, correctionRecord).corrections
            /\ inflight' = [inflight EXCEPT ![c] =
                   [call EXCEPT !.correctionId = correctionRecord.id, !.pc = "done"]]
            /\ UNCHANGED <<essays, boot, res>>

RaceNext ==
    \/ RaceGraded
    \/ RaceFindFirst
    \/ RaceEssayCreate
    \/ RaceCorrectionCreate

RaceSpec == RaceInit /\ [][RaceNext]_vars

\* a call that runs while the other waits for its grading call does what
\* submitEssay does in one piece
RaceStepsAreSubmitEssay ==
    \A c \in Calls :
        ( /\ inflight[c].pc = "done"
          /\ \A d \in Calls \ {c} : inflight[d].pc = "generateContent" )
        => \E st \in RaceStores :
               St = submitEssay(st, inflight[c].userId, inflight[c].essayData,
                                inflight[c].gemini, "ok").st

\* ------------------------------------------- readers beside running calls
\* The read operations run while calls of submitEssay are between two of
\* their steps, and prisma.correction.create of a call may fail, which ends
\* the call in its catch block with the Essay already written.

\* lines 211-217 and 229-237: prisma.correction.create rejects
RaceCorrectionCreateFails ==
    \E c \in Calls :
        LET call == inflight[c] IN
        /\ call.pc = "correction.create"
        /\ inflight' = [inflight EXCEPT ![c] =
               [call EXCEPT !.pc = "failed", !.error = CatchSubmit(PrismaError)]]
        /\ UNCHANGED <<essays, corrections, boot, res>>

InterleavedNext ==
    \/ RaceNext
    \/ RaceCorrectionCreateFails
    \/ ReadNext

InterleavedSpec == RaceInit /\ [][InterleavedNext]_vars

\* --------------------------------------------------------- controllers
\* controllers/essay.controller.js: handlers that read the request, call
\* the service and hand every error to the error middleware.

MsgInternal == <<"Internal Server Error">>
MsgControllerRequired == <<"O texto da redacao e o topico sao obrigatorios.">>

\* middlewares/error.middleware.js: every error is answered the same way
errorHandler(err) == [status |-> 500, message |-> MsgInternal]

\* getEssayDetails: EssayService.getEssayById(req.user.id, essayId), then
\* res.json(essayDetails); the catch block calls next(err)
getEssayDetails(st, userId, essayId) ==
    LET essayDetails == getEssayById(st, userId, essayId) IN
    IF essayDetails.ok
    THEN [status |-> 200, message |-> NoMsg, essay |-> essayDetails.essay]
    ELSE [status |-> errorHandler(essayDetails.error).status,
          message |-> errorHandler(essayDetails.error).message,
          essay |-> NoEssay]

\* GET /:essayId answered by the controller, for an id in use or the next
GetEssayDetails ==
    \E userId \in Users, essayId \in 1..(Len(essays) + 1) :
        /\ res' = [op |-> "getEssayDetails", userId |-> userId,
                   essayId |-> essayId,
                   reply |-> getEssayDetails(St, userId, essayId)]
        /\ UNCHANGED <<essays, corrections, boot, inflight>>

\* the TypeError of destructuring undefined or null
MsgCannotDestructure == <<"Cannot destructure property 'essayText'",
                          "of 'essayData'">>

\* service submitEssay(userId, essayData) when essayData is a scalar:
\* const { essayText, essayTopic } = essayData throws for undefined and
\* null, and reads two properties a string does not have otherwise
submitEssayOfScalar(st, userId, essayData, gemini, db) ==
    IF Nullish(essayData) THEN SubmitFailed(st, MsgCannotDestructure, 0)
    ELSE submitEssay(st, userId,
                     [essayText |-> Undefined, essayTopic |-> Undefined],
                     gemini, db)

\* controller submitEssay: checks essayText only, then calls
\* EssayService.submitEssay(userId, essayTopic, essayText), whose second
\* parameter is essayData and which has no third; res.status(201) on
\* success, next(err) in the catch block
submitEssayController(st, userId, body, gemini, db) ==
    IF Falsy(body.essayText) \/ Trim(body.essayText.s) = <<>>
    THEN [status |-> 400, message |-> MsgControllerRequired, calls |-> 0,
          st |-> st]
    ELSE LET correctionResult ==
                 submitEssayOfScalar(st, userId, body.essayTopic, gemini, db)
         IN  IF correctionResult.ok
             THEN [status |-> 201, message |-> NoMsg,
                   calls |-> correctionResult.calls, st |-> correctionResult.st]
             ELSE [status |-> errorHandler(correctionResult.error).status,
                   message |-> errorHandler(correctionResult.error).message,
                   calls |-> correctionResult.calls, st |-> correctionResult.st]

ControllerTexts == {Undefined, Str(<<>>), Str(<<"ws">>), Str(<<"X">>)}

\* the outcomes of the grading call and of the storage that matter to a
\* request: none when the request ends before the grading call
ControllerOutcomesFor(userId, body) ==
    IF submitEssayController(St, userId, body, NoCall, "ok").calls = 0
    THEN {NoCall} ELSE GraderOutcomes

ControllerDbOutcomesFor(userId, body) ==
    IF submitEssayController(St, userId, body, NoCall, "ok").calls = 0
    THEN {"ok"} ELSE DbOutcomes

\* POST / answered by the controller: one whole call
SubmitEssayController ==
    \E userId \in Users, topic \in TopicInputs, text \in ControllerTexts :
        \E g \in ControllerOutcomesFor(userId, [essayText |-> text, essayTopic |-> topic]),
           db \in ControllerDbOutcomesFor(userId, [essayText |-> text, essayTopic |-> topic]) :
            LET body == [essayText |-> text, essayTopic |-> topic]
                r == submitEssayController(St, userId, body, g, db)
            IN  /\ essays' = r.st.essays
                /\ corrections' = r.st.corrections
                /\ res' = [op |-> "submitEssayController", userId |-> userId,
                           body |-> body, status |-> r.status,
                           message |-> r.message, calls |-> r.calls,
                           essaysBefore |-> Len(essays),
                           correctionsBefore |-> Len(corrections)]
                /\ UNCHANGED <<boot, inflight>>

ControllerNext ==
    \/ SubmitEssayController
    \/ GetEssayDetails

\* the controllers answering requests over a store of rows that earlier
\* runs wrote
ControllerSpec == StoreInit /\ [][ControllerNext]_vars

\* ================================================================ claims
EssayIndexes == 1..Len(essays)
CorrectionIndexes == 1..Len(corrections)

\* the essay rows with the given owner, topic and text
RowsFor(es, userId, topic, text) ==
    {i \in 1..Len(es) : es[i].userId = userId /\ es[i].topic = topic /\ es[i].text = text}

\* the correction rows linked to an essay
LinkedTo(cs, essayId) == {j \in 1..Len(cs) : cs[j].essayId = essayId}

\* the entries of a history for an essay
EntriesFor(history, essayId) == {k \in 1..Len(history) : history[k].id = essayId}

\* C1: when a user's submission creates an Essay and the same user's next
\* call submits the same topic and text, both succeeding, the store then
\* holds exactly one Essay row for that (user, topic, text), exactly two
\* Correction rows linked to it, and the user's history has exactly one entry
\* for it, which carries the later Correction and its total.
C1_ResubmissionReusesEssay ==
    [][ ( /\ res.op = "submitEssay" /\ res.ok /\ res.createdEssay
          /\ res'.op = "submitEssay" /\ res'.ok
          /\ res'.userId = res.userId /\ res'.essayData = res.essayData )
        => LET after == [essays |-> essays', corrections |-> corrections']
               history == getEssayHistory(after, res'.userId)
               entries == EntriesFor(history, res'.essayId)
           IN  /\ res'.essayId = res.essayId
               /\ Cardinality(RowsFor(essays', res'.userId, res'.essayData.essayTopic.s,
                                      res'.essayData.essayText.s)) = 1
               /\ LinkedTo(corrections', res'.essayId) = {res.correctionId, res'.correctionId}
               /\ res.correctionId # res'.correctionId
               /\ Cardinality(entries) = 1
               /\ \A k \in entries :
                      /\ history[k].correction.id = res'.correctionId
                      /\ history[k].correction.total = res'.total
      ]_vars

\* C1 witness: a resubmission has just succeeded on an essay that now has two
\* corrections with different totals, and the history shows the later one.
C1_Witness ==
    /\ res.op = "submitEssay" /\ res.ok /\ ~res.createdEssay
    /\ Cardinality(LinkedTo(corrections, res.essayId)) = 2
    /\ \E j \in LinkedTo(corrections, res.essayId) : corrections[j].total # res.total
    /\ \E k \in EntriesFor(getEssayHistory(St, res.userId), res.essayId) :
           getEssayHistory(St, res.userId)[k].correction.total = res.total

\* whether a text holds a JSON object literal
HoldsJsonObject(text) ==
    \E i \in 1..Len(text) : text[i] \in JsonLiterals /\ JsonValue(text[i]).kind = "object"

\* C2: when the grading call returns text holding no JSON object, submitEssay
\* fails with an error and the store has as many Correction rows as before.
C2_UnparseableTextFails ==
    ( /\ res.op = "submitEssay" /\ res.calls = 1 /\ ~res.gemini.threw
      /\ res.gemini.candText \o res.gemini.text # <<>>
      /\ ~HoldsJsonObject(res.gemini.candText \o res.gemini.text) )
    => /\ ~res.ok
       /\ res.error # NoMsg
       /\ Len(corrections) = res.correctionsBefore

\* C2 witness: the grader answered with prose and the call failed.
C2_Witness ==
    /\ res.op = "submitEssay" /\ res.calls = 1
    /\ res.gemini = Answer(<<"prose">>, <<>>, FALSE)
    /\ ~res.ok /\ res.error = MsgInvalid
    /\ Len(corrections) = res.correctionsBefore

\* a submitted field that is missing or the empty string
EmptyField(v) == v.t = "undefined" \/ (v.t = "string" /\ v.s = <<>>)

\* C3: when topic or text is empty, submitEssay fails without making the
\* grading call and without creating an Essay or a Correction row.
C3_EmptyInputFailsFast ==
    ( /\ res.op = "submitEssay"
      /\ (EmptyField(res.essayData.essayTopic) \/ EmptyField(res.essayData.essayText)) )
    => /\ ~res.ok
       /\ res.calls = 0
       /\ Len(essays) = res.essaysBefore
       /\ Len(corrections) = res.correctionsBefore

\* C3 witness: a submission with an empty topic and a non-empty text failed.
C3_Witness ==
    /\ res.op = "submitEssay"
    /\ res.essayData.essayTopic = Str(<<>>)
    /\ res.essayData.essayText = Str(<<"X">>)
    /\ ~res.ok /\ res.error = MsgRequired /\ res.calls = 0

\* the sum of the notas a payload holds
RECURSIVE SumOver(_, _)
SumOver(notas, keys) ==
    IF keys = {} THEN 0
    ELSE LET k == CHOOSE k \in keys : TRUE
         IN  notas[k] + SumOver(notas, keys \ {k})

SumOfNotas(notes) == SumOver(notes.notas, DOMAIN notes.notas)

\* C4: every persisted Correction has a total equal to the sum of its
\* competency notas.
C4_TotalIsSumOfNotas ==
    \A j \in CorrectionIndexes :
        corrections[j].total = Num(SumOfNotas(corrections[j].notes))

\* C5: no persisted Correction has a payload that lacks one of c1..c5.
C5_NoCompetencyMissing ==
    \A j \in CorrectionIndexes :
        /\ corrections[j].notes.hasComp
        /\ CompKeys \subseteq DOMAIN corrections[j].notes.notas

NotaScale == {0, 40, 80, 120, 160, 200}

\* C6: every persisted Correction has a numeric total and every nota it
\* holds is one of 0, 40, 80, 120, 160, 200.
C6_NotasOnScale ==
    \A j \in CorrectionIndexes :
        /\ corrections[j].total.t = "number"
        /\ \A k \in DOMAIN corrections[j].notes.notas :
               corrections[j].notes.notas[k] \in NotaScale

AchievementIds(list) == {list[i].id : i \in 1..Len(list)}

Unlocked(list, id) == \E i \in 1..Len(list) : list[i].id = id /\ list[i].unlocked

Catalog == {"first_essay", "five_essays", "road_to_1000", "master_c5"}

\* C8: getUserAchievements returns the same four achievement ids whatever
\* the user's essays are.
C8_FixedCatalog ==
    res.op = "getUserAchievements" => AchievementIds(res.out) = Catalog

\* the correction of an essay with the greatest creation time
LatestOf(essayId) ==
    CHOOSE j \in LinkedTo(corrections, essayId) :
        \A k \in LinkedTo(corrections, essayId) :
            corrections[k].createdAt <= corrections[j].createdAt

\* a graded essay: it has a correction and the latest one has a payload with
\* a total
GradedRows(userId) ==
    {i \in EssayIndexes :
        /\ essays[i].userId = userId
        /\ LinkedTo(corrections, essays[i].id) # {}
        /\ corrections[LatestOf(essays[i].id)].notes.kind = "object"
        /\ corrections[LatestOf(essays[i].id)].notes.total.t = "number"}

\* C9: first_essay is unlocked exactly when the user has at least 1 graded
\* essay, five_essays exactly when the user has at least 5.
C9_CountAchievements ==
    \A userId \in Users :
        LET list == getUserAchievements(St, userId)
            n == Cardinality(GradedRows(userId))
        IN  /\ Unlocked(list, "first_essay") <=> n >= 1
            /\ Unlocked(list, "five_essays") <=> n >= 5

\* C9 witness: a user with five graded essays was shown five_essays
\* unlocked while the other user, with an essay that has no correction, has
\* first_essay locked.
C9_Witness ==
    /\ res.op = "getUserAchievements"
    /\ Cardinality(GradedRows(res.userId)) = 5
    /\ Unlocked(res.out, "five_essays")
    /\ \E u \in Users :
           /\ EssaysOfUser(St, u) # <<>>
           /\ GradedRows(u) = {}
           /\ ~Unlocked(getUserAchievements(St, u), "first_essay")

\* C10: road_to_1000 is unlocked exactly when the latest correction of some
\* graded essay has total >= 900; master_c5 is in the list, unlocked, exactly
\* when the latest correction of some graded essay has c5 nota 200.
C10_ScoreAchievements ==
    \A userId \in Users :
        LET list == getUserAchievements(St, userId)
            latest == {LatestOf(essays[i].id) : i \in GradedRows(userId)}
            c5is200(j) == /\ corrections[j].notes.hasComp
                          /\ "c5" \in DOMAIN corrections[j].notes.notas
                          /\ corrections[j].notes.notas["c5"] = 200
        IN  /\ Unlocked(list, "road_to_1000")
                <=> \E j \in latest : corrections[j].notes.total.n >= 900
            /\ Unlocked(list, "master_c5") <=> \E j \in latest : c5is200(j)
            /\ "master_c5" \in AchievementIds(list) <=> \E j \in latest : c5is200(j)

\* C10 witness: a user was shown road_to_1000 unlocked and no master_c5
\* after a resubmission graded 960 replaced, as the latest correction, one
\* whose c5 nota was 200.
C10_Witness ==
    /\ res.op = "getUserAchievements"
    /\ Unlocked(res.out, "road_to_1000")
    /\ "master_c5" \notin AchievementIds(res.out)
    /\ \E j \in CorrectionIndexes :
           /\ \E i \in EssayIndexes :
                  essays[i].id = corrections[j].essayId /\ essays[i].userId = res.userId
           /\ NotaOf(corrections[j].notes, "c5") = Num(200)

\* the snapshot of a dashboard with nothing in it
EmptySnapshot ==
    [totalEssays |-> 0, averageGrade |-> 0, highestGrade |-> [finite |-> TRUE, n |-> 0],
     recentGrades |-> <<>>, competenceAverages |-> <<>>]

\* a user none of whose essays has a correction
HasNoCorrection(userId) ==
    \A i \in EssayIndexes :
        essays[i].userId = userId => LinkedTo(corrections, essays[i].id) = {}

\* C11: for a user with no Essays, or only Essays without Corrections,
\* getEssayAnalytics returns the snapshot whose graded count, average total
\* and highest total are 0 (a finite number) and whose series and
\* per-competency averages are empty.
C11_EmptyAnalytics ==
    /\ \A userId \in Users :
           HasNoCorrection(userId) => getEssayAnalytics(St, userId) = EmptySnapshot
    /\ (res.op = "getEssayAnalytics" /\ HasNoCorrection(res.userId))
           => res.out = EmptySnapshot

\* C11 witness: the dashboard was computed for a user whose only essays have
\* no correction, while the other user has graded essays.
C11_Witness ==
    /\ res.op = "getEssayAnalytics"
    /\ EssaysOfUser(St, res.userId) # <<>>
    /\ HasNoCorrection(res.userId)
    /\ res.out = EmptySnapshot
    /\ \E u \in Users : getEssayAnalytics(St, u).totalEssays > 0

\* the sum of the totals of the latest corrections of a set of essay rows
RECURSIVE SumLatestTotals(_)
SumLatestTotals(rows) ==
    IF rows = {} THEN 0
    ELSE LET i == CHOOSE i \in rows : TRUE
         IN  corrections[LatestOf(essays[i].id)].notes.total.n
                 + SumLatestTotals(rows \ {i})

\* C12: totalEssays and averageGrade of getEssayAnalytics are computed over
\* exactly the Essays whose latest Correction holds a payload with a total:
\* an Essay without Corrections, or whose latest payload has none, is in
\* neither the count, the numerator nor the denominator.
C12_AverageOverValidOnly ==
    \A userId \in Users :
        LET valid == GradedRows(userId)
            out == getEssayAnalytics(St, userId)
        IN  /\ out.totalEssays = Cardinality(valid)
            /\ out.averageGrade = IF valid = {} THEN 0
                                  ELSE RoundDiv(SumLatestTotals(valid), Cardinality(valid))

\* C13: parseJsonSafely returns for a string put in a markdown fence, with
\* the language tag json or without it, what it returns for the string.
C13_FenceMakesNoDifference ==
    res.op = "parseFenced" => res.out = res.plain

\* C14: parseJsonSafely never raises: for nothing, the empty string, a value
\* that is no string, malformed text and well-formed JSON alike it returns
\* null or a decoded value, the object handed in or the value of a JSON
\* literal of the text.
C14_ParseNeverRaises ==
    /\ \A data \in ParseInputs : ~parseJsonSafelyCall(data).threw
    /\ res.op = "parseJsonSafely"
           => /\ ~res.out.threw
              /\ \/ res.out.value = JsonNull
                 \/ res.data.t = "json" /\ res.out.value = res.data.v
                 \/ /\ res.data.t = "string"
                    /\ \E i \in 1..Len(res.data.s) :
                           /\ res.data.s[i] \in JsonLiterals
                           /\ res.out.value = JsonValue(res.data.s[i])

\* C14 witness: parseJsonSafely was applied to malformed text, on which
\* JSON.parse throws, and returned null.
C14_Witness ==
    /\ res.op = "parseJsonSafely"
    /\ res.data.t = "string"
    /\ TryParse(res.data.s).threw
    /\ "prose" \in {res.data.s[i] : i \in 1..Len(res.data.s)}
    /\ res.out = [threw |-> FALSE, value |-> JsonNull]

\* C15: when submitEssay fails because the grader's response cannot be
\* cleaned or validated, the Essay row for (user, topic, text) exists in the
\* store afterwards and no Correction row has been added.
C15_EssayKeptOnFormatFailure ==
    (res.op = "submitEssay" /\ ~res.ok /\ res.error = MsgInvalid)
    => /\ RowsFor(essays, res.userId, res.essayData.essayTopic.s,
                  res.essayData.essayText.s) # {}
       /\ Len(corrections) = res.correctionsBefore

\* the messages of the failures of submitEssay that are no content block
OtherFailureMessages ==
    {MsgRequired, MsgNoText, MsgInvalid, MsgApiFail, PrismaError, UpstreamFetchError}

\* C16: when the grading call signals a content-safety block, with or
\* without text in the response, submitEssay fails, the client is sent the
\* message of the block, which no other failure has, and no Essay or
\* Correction row is created.
C16_BlockHasItsOwnMessage ==
    /\ MsgBlocked \notin OtherFailureMessages
    /\ (res.op = "submitEssay" /\ res.calls = 1 /\ ~res.gemini.threw /\ res.gemini.blocked)
       => /\ ~res.ok
          /\ res.reply.message = MsgBlocked
          /\ Len(essays) = res.essaysBefore
          /\ Len(corrections) = res.correctionsBefore

\* the generic messages of a failed grading call
GenericUpstreamMessages == {MsgApiFail, MsgBlocked, MsgNoText, MsgInvalid}

\* the text the grading call supplied: its error message and its response
UpstreamText(gemini) ==
    {gemini.err[i] : i \in 1..Len(gemini.err)}
        \cup {gemini.candText[i] : i \in 1..Len(gemini.candText)}
        \cup {gemini.text[i] : i \in 1..Len(gemini.text)}

\* C17: when the grading call fails (it rejects, or the response is
\* blocked), the message submitEssay raises and the route sends is one of the
\* generic messages and holds no text supplied by the call.
C17_UpstreamTextNeverSurfaces ==
    (res.op = "submitEssay" /\ res.calls = 1 /\ (res.gemini.threw \/ res.gemini.blocked))
    => /\ ~res.ok
       /\ res.error \in GenericUpstreamMessages
       /\ res.reply.message = res.error
       /\ \A i \in 1..Len(res.reply.message) :
              res.reply.message[i] \notin UpstreamText(res.gemini)

\* C18: a POST / whose topic or text is empty is answered 400.
C18_EmptyInputAnswered400 ==
    ( /\ res.op = "submitEssay"
      /\ (EmptyField(res.essayData.essayTopic) \/ EmptyField(res.essayData.essayText)) )
    => res.reply.status = 400

\* C19: when two calls of submitEssay by one user with the same topic and
\* text overlap and the grader answers both well, then, however their steps
\* interleave, once both have ended at most two Essay rows with that (user,
\* topic, text) exist; exactly two Correction rows have been created, one by
\* each call; each is linked to the Essay its call found or created, a row
\* with that (user, topic, text).  No call fails but on its grader's answer.
C19_RaceAtWorstDuplicatesEssay ==
    /\ \A c \in Calls :
           inflight[c].pc = "failed" => ~ReachesStorage(inflight[c].essayData,
                                                        inflight[c].gemini)
    /\ \A c \in Calls, d \in Calls :
           ( /\ c # d
             /\ inflight[c].pc = "done" /\ inflight[d].pc = "done"
             /\ inflight[c].userId = inflight[d].userId
             /\ inflight[c].essayData = inflight[d].essayData )
           => LET rows == RowsFor(essays, inflight[c].userId,
                                  inflight[c].essayData.essayTopic.s,
                                  inflight[c].essayData.essayText.s)
              IN  /\ Cardinality(rows) <= 2
                  /\ Len(corrections) = res.correctionsBefore + 2
                  /\ inflight[c].correctionId # inflight[d].correctionId
                  /\ \A x \in {c, d} :
                         /\ inflight[x].correctionId \in
                                (res.correctionsBefore + 1)..Len(corrections)
                         /\ corrections[inflight[x].correctionId].essayId
                                = inflight[x].essayId
                         /\ inflight[x].essayId \in {essays[i].id : i \in rows}

\* C19 witness: both calls of one user have ended and the race has left two
\* Essay rows with the same (user, topic, text), each with one Correction.
C19_Witness ==
    /\ boot = "race"
    /\ \A c \in Calls : inflight[c].pc = "done" /\ inflight[c].userId = "u1"
    /\ Cardinality(RowsFor(essays, "u1", <<"T">>, <<"X">>)) = 2
    /\ inflight[1].essayId # inflight[2].essayId
    /\ \A c \in Calls : Cardinality(LinkedTo(corrections, inflight[c].essayId)) = 1

\* the store with, of the corrections of each essay, only the one created
\* last
LatestOnly(st) ==
    [st EXCEPT !.corrections =
        SelectSeq(@, LAMBDA c :
            \A j \in 1..Len(st.corrections) :
                st.corrections[j].essayId = c.essayId
                    => st.corrections[j].createdAt <= c.createdAt)]

\* the store as the last call of submitEssay found it: rows are only added,
\* at the end
Before ==
    [essays |-> SubSeq(essays, 1, res.essaysBefore),
     corrections |-> SubSeq(corrections, 1, res.correctionsBefore)]

\* C20: getEssayAnalytics, getUserAchievements and getEssayHistory return
\* what they return on the store stripped of every correction that is not
\* the latest of its essay; and when a resubmission has added a newer
\* Correction to an Essay that had one, the user has as many graded essays
\* and history entries as before and the entry of the Essay carries the new
\* Correction.
C20_OnlyLatestCorrectionCounts ==
    /\ \A userId \in Users :
           /\ getEssayAnalytics(St, userId) = getEssayAnalytics(LatestOnly(St), userId)
           /\ getUserAchievements(St, userId) = getUserAchievements(LatestOnly(St), userId)
           /\ getEssayHistory(St, userId) = getEssayHistory(LatestOnly(St), userId)
    /\ ( /\ res.op = "submitEssay" /\ res.ok
         /\ LinkedTo(Before.corrections, res.essayId) # {} )
       => LET history == getEssayHistory(St, res.userId)
          IN  /\ getEssayAnalytics(St, res.userId).totalEssays
                     = getEssayAnalytics(Before, res.userId).totalEssays
              /\ Len(EssayGrades(St, res.userId)) = Len(EssayGrades(Before, res.userId))
              /\ Len(history) = Len(getEssayHistory(Before, res.userId))
              /\ \A k \in EntriesFor(history, res.essayId) :
                     /\ history[k].correction.id = res.correctionId
                     /\ history[k].correction.total = res.total

\* C20 witness: a resubmission graded 960 has just replaced, as the latest
\* correction of an essay, one graded 200 with c5 nota 200: the average
\* moved from 200 to 960 and master_c5 left the list of achievements.
C20_Witness ==
    /\ res.op = "submitEssay" /\ res.ok
    /\ LinkedTo(Before.corrections, res.essayId) # {}
    /\ getEssayAnalytics(Before, res.userId).averageGrade = 200
    /\ getEssayAnalytics(St, res.userId).averageGrade = 960
    /\ getEssayAnalytics(St, res.userId).recentGrades = <<Num(960)>>
    /\ "master_c5" \in AchievementIds(getUserAchievements(Before, res.userId))
    /\ "master_c5" \notin AchievementIds(getUserAchievements(St, res.userId))

\* a submitted field that holds text
FilledField(v) == v.t = "string" /\ v.s # <<>>

\* C21: a call of submitEssay whose topic and text are both filled makes the
\* grading call exactly once, whether the call then succeeds, the grader
\* rejects, its answer is refused or the storage fails.
C21_GradedExactlyOnce ==
    ( /\ res.op = "submitEssay"
      /\ FilledField(res.essayData.essayTopic)
      /\ FilledField(res.essayData.essayText) )
    => res.calls = 1

\* C21 witness: the grading call rejected and was made once.
C21_Witness ==
    /\ res.op = "submitEssay"
    /\ FilledField(res.essayData.essayTopic) /\ FilledField(res.essayData.essayText)
    /\ res.gemini.threw /\ ~res.ok
    /\ res.calls = 1

\* the rows of a user: the user's essays and the corrections of those essays
OwnRows(st, userId) ==
    [essays |-> SelectSeq(st.essays, LAMBDA e : e.userId = userId),
     corrections |-> SelectSeq(st.corrections, LAMBDA c :
                        \E i \in 1..Len(st.essays) :
                            st.essays[i].id = c.essayId /\ st.essays[i].userId = userId)]

\* C22: getEssayHistory, getEssayAnalytics and getUserAchievements return
\* for a user what they return on the user's own rows alone, so two stores
\* with the same rows of the user give the user the same results; and a
\* successful submitEssay links its Correction to an Essay of the caller,
\* never to another user's Essay with the same topic and text.
C22_OwnRowsOnly ==
    /\ \A userId \in Users :
           /\ getEssayHistory(St, userId) = getEssayHistory(OwnRows(St, userId), userId)
           /\ getEssayAnalytics(St, userId) = getEssayAnalytics(OwnRows(St, userId), userId)
           /\ getUserAchievements(St, userId)
                  = getUserAchievements(OwnRows(St, userId), userId)
    /\ (res.op = "submitEssay" /\ res.essayId # 0)
           => \E i \in EssayIndexes :
                  /\ essays[i].id = res.essayId
                  /\ essays[i].userId = res.userId
                  /\ essays[i].topic = res.essayData.essayTopic.s
                  /\ essays[i].text = res.essayData.essayText.s
    /\ \A j \in CorrectionIndexes :
           Cardinality({i \in EssayIndexes : essays[i].id = corrections[j].essayId}) = 1

\* C22 witness: a user submitted the topic and text of another user's Essay
\* and got an Essay row of their own, while the other user has graded essays
\* the submitter's dashboard does not show.
C22_Witness ==
    /\ res.op = "submitEssay" /\ res.ok /\ res.createdEssay
    /\ \E i \in EssayIndexes :
           /\ essays[i].userId # res.userId
           /\ essays[i].topic = res.essayData.essayTopic.s
           /\ essays[i].text = res.essayData.essayText.s
    /\ \E u \in Users \ {res.userId} : getEssayAnalytics(St, u).totalEssays > 1
    /\ getEssayAnalytics(St, res.userId).totalEssays = 1

\* C23: the number of graded essays getUserAchievements compares with its
\* thresholds is the totalEssays getEssayAnalytics reports for the same
\* store and user, so first_essay is unlocked exactly when totalEssays is at
\* least 1 and five_essays exactly when it is at least 5.
C23_SameGradedSet ==
    \A userId \in Users :
        LET totalEssays == getEssayAnalytics(St, userId).totalEssays
            list == getUserAchievements(St, userId)
        IN  /\ Len(EssayGrades(St, userId)) = totalEssays
            /\ Unlocked(list, "first_essay") <=> totalEssays >= FirstEssayThreshold
            /\ Unlocked(list, "five_essays") <=> totalEssays >= FiveEssaysThreshold

\* the sum, over a set of essay rows, of the nota their latest corrections
\* hold for a competency (nothing for a payload without it)
RECURSIVE SumLatestNotas(_, _)
SumLatestNotas(rows, k) ==
    IF rows = {} THEN 0
    ELSE LET i == CHOOSE i \in rows : TRUE
             nota == NotaOf(corrections[LatestOf(essays[i].id)].notes, k)
         IN  (IF nota.t = "number" THEN nota.n ELSE 0) + SumLatestNotas(rows \ {i}, k)

\* C24: averageGrade is the mean of the graded essays' totals rounded to the
\* nearest integer (0 without graded essays); competenceAverages holds each
\* of c1..c5, with the mean of the competency's notas over the graded
\* essays, rounded, and 0 for a competency no graded essay has a nota for.
C24_RoundedMeans ==
    \A userId \in Users :
        LET graded == GradedRows(userId)
            out == getEssayAnalytics(St, userId)
        IN  /\ out.averageGrade = IF graded = {} THEN 0
                                  ELSE RoundDiv(SumLatestTotals(graded), Cardinality(graded))
            /\ DOMAIN out.competenceAverages = CompKeys
            /\ \A k \in CompKeys :
                   out.competenceAverages[k]
                       = IF graded = {} THEN 0
                         ELSE RoundDiv(SumLatestNotas(graded, k), Cardinality(graded))

\* the graded essays of a user, oldest first
GradedOldestFirst(userId) ==
    Reverse(OrderByCreatedDesc(
        SelectSeq(essays, LAMBDA e :
            \E i \in GradedRows(userId) : essays[i].id = e.id)))

\* the totals of the latest corrections of a sequence of essays
LatestTotals(rows) ==
    [i \in 1..Len(rows) |-> corrections[LatestOf(rows[i].id)].notes.total]

LatestCount == 3

\* C25: in the result of getEssayAnalytics the score series lists the graded
\* essays oldest first, and a member 'latest' holds the min(3, graded
\* count) graded essays created last, newest first.
C25_SeriesAndLatest ==
    \A userId \in Users :
        LET out == getEssayAnalytics(St, userId)
            oldestFirst == GradedOldestFirst(userId)
        IN  /\ out.recentGrades = LatestTotals(oldestFirst)
            /\ "latest" \in DOMAIN out
            /\ out.latest = LatestTotals(Take(Reverse(oldestFirst), LatestCount))

ReadOperations == {"getEssayHistory", "getEssayById", "getEssayAnalytics",
                   "getUserAchievements"}

\* C26: every operation leaves each Essay and Correction row that exists in
\* place with the same field values, and the four read operations add no
\* row.
C26_RowsImmutable ==
    [][ /\ Len(essays') >= Len(essays)
        /\ SubSeq(essays', 1, Len(essays)) = essays
        /\ Len(corrections') >= Len(corrections)
        /\ SubSeq(corrections', 1, Len(corrections)) = corrections
        /\ res'.op \in ReadOperations
               => essays' = essays /\ corrections' = corrections
      ]_vars

\* C26 witness: after a resubmission and a read, the essay holds both its
\* corrections, the first one as it was written.
C26_Witness ==
    /\ res.op \in ReadOperations
    /\ \E i \in EssayIndexes :
           /\ essays[i].topic = <<"T">>
           /\ \E j \in LinkedTo(corrections, essays[i].id),
                 k \in LinkedTo(corrections, essays[i].id) :
                  /\ j < k
                  /\ corrections[j].total # corrections[k].total
                  /\ corrections[j].total = corrections[j].notes.total

\* a step call c takes by itself, without an answer of the grader
ServiceStepOf(c) ==
    /\ RaceFindFirst \/ RaceEssayCreate \/ RaceCorrectionCreate
    /\ inflight'[c] # inflight[c]

\* C27: a submitEssay call that has not finished can always take a step of
\* its own: also while the grader has not answered, the call itself goes on
\* (after a timeout, to the upstream error), so that every call ends.
C27_CallEndsByItself ==
    \A c \in Calls :
        inflight[c].pc \notin {"done", "failed"} => ENABLED ServiceStepOf(c)

\* the essays of a user that have at least one Correction
GradedIndexes(userId) ==
    {i \in EssayIndexes :
        essays[i].userId = userId /\ LinkedTo(corrections, essays[i].id) # {}}

\* C28: at every point of every interleaving of submitEssay calls with
\* readers, also between the creation of an Essay and that of its Correction
\* and after a failure between the two, an Essay with zero Corrections is in
\* no history and is counted neither by the analytics nor by the
\* achievements; and what a reader was answered counts graded essays only.
C28_UngradedEssayNeverCounted ==
    /\ \A userId \in Users :
           LET history == getEssayHistory(St, userId)
               graded == Cardinality(GradedIndexes(userId))
               achievements == getUserAchievements(St, userId)
           IN  /\ \A k \in 1..Len(history) :
                      LinkedTo(corrections, history[k].id) # {}
               /\ getEssayAnalytics(St, userId).totalEssays = graded
               /\ Len(EssayGrades(St, userId)) <= graded
               /\ \A k \in 1..Len(achievements) :
                      (achievements[k].id = "first_essay" /\ achievements[k].unlocked)
                          => graded >= 1
    /\ res.op = "getEssayHistory"
           => \A k \in 1..Len(res.out) : LinkedTo(corrections, res.out[k].id) # {}
    /\ res.op = "getEssayAnalytics"
           => res.out.totalEssays <= Cardinality(GradedIndexes(res.userId))
    /\ res.op = "getUserAchievements"
           => \A k \in 1..Len(res.out) :
                  (res.out[k].id = "first_essay" /\ res.out[k].unlocked)
                      => GradedIndexes(res.userId) # {}

\* C28 witness: one call failed after writing its Essay, another has written
\* its Essay and not yet its Correction, and the analytics answered to the
\* owner of the second count neither.
C28_Witness ==
    \E c \in Calls, d \in Calls :
        /\ inflight[c].pc = "failed"
        /\ inflight[c].essayId # 0
        /\ LinkedTo(corrections, inflight[c].essayId) = {}
        /\ inflight[d].pc = "correction.create"
        /\ LinkedTo(corrections, inflight[d].essayId) = {}
        /\ res.op = "getEssayAnalytics"
        /\ res.userId = inflight[d].userId
        /\ res.out.totalEssays = 0
        /\ \E i \in EssayIndexes : essays[i].userId = res.userId

\* C29: when the owner of an Essay asks for it through the getEssayDetails
\* controller, the controller hands the two ids to getEssayById in its
\* declared positions and the owner is answered with that Essay.
C29_OwnerGetsEssayFromController ==
    (/\ res.op = "getEssayDetails"
     /\ \E i \in EssayIndexes :
            essays[i].id = res.essayId /\ essays[i].userId = res.userId)
        => (res.reply.status = 200 /\ res.reply.essay.id = res.essayId)

\* C30: a submission with essayText and essayTopic both filled in that comes
\* in through the submitEssay controller passes the service's validation and
\* reaches the grading call; and the controller itself answers 400 to an
\* empty topic as it does to an empty text.
C30_ControllerReachesGrading ==
    res.op = "submitEssayController" =>
        /\ (FilledField(res.body.essayTopic) /\ FilledField(res.body.essayText)
            /\ Trim(res.body.essayText.s) # <<>>)
               => res.calls = 1
        /\ (Falsy(res.body.essayTopic) \/ Falsy(res.body.essayText))
               => res.status = 400

====
